---------------------------- MODULE Spec2Model ----------------------------
(***************************************************************************)
(* Model of olo's SQL expression core: the operator precedence table, the  *)
(* operator negation tables and the rendering combinators of olo/utils.py, *)
(* and the operation mixins of olo/mixins/operations.py.                   *)
(*                                                                         *)
(* Python strings are sequences of one-character strings, so that upper()  *)
(* and strip() are computed rather than assumed.  Python values are        *)
(* records tagged with their type.  Lists live in a heap and are held by   *)
(* reference, so that aliasing and in-place mutation (list.extend) are     *)
(* visible.                                                                *)
(***************************************************************************)
EXTENDS Integers, Sequences, FiniteSets, TLC

VARIABLES
    OPERATOR_PRECEDENCES,  \* module-level dict: operator -> tier
    UNARY_NEG_OPERATOR,    \* module-level dict: operator -> negation
    BINARY_NEG_OPERATOR,   \* module-level dict: operator -> negation
    heap,                  \* list objects: id -> sequence of values
    pc,                    \* position of get_sql_pieces_and_params
    frame,                 \* locals of get_sql_pieces_and_params
    last,                  \* the last call: function, arguments, result
    again                  \* the previous result, when the last call repeats
                           \* the call before it

tables == <<OPERATOR_PRECEDENCES, UNARY_NEG_OPERATOR, BINARY_NEG_OPERATOR>>
vars == <<OPERATOR_PRECEDENCES, UNARY_NEG_OPERATOR, BINARY_NEG_OPERATOR,
          heap, pc, frame, last, again>>

-----------------------------------------------------------------------------
(* Bounds *)

\* longest operand sequence handed to get_sql_pieces_and_params
MaxExps == 3

-----------------------------------------------------------------------------
(* Python strings *)

LowerLetters ==
    <<"a","b","c","d","e","f","g","h","i","j","k","l","m",
      "n","o","p","q","r","s","t","u","v","w","x","y","z">>

UpperLetters ==
    <<"A","B","C","D","E","F","G","H","I","J","K","L","M",
      "N","O","P","Q","R","S","T","U","V","W","X","Y","Z">>

Whitespace == {" ", "\t", "\n", "\r"}

UpperChar(c) ==
    IF \E i \in DOMAIN LowerLetters : LowerLetters[i] = c
    THEN UpperLetters[CHOOSE i \in DOMAIN LowerLetters : LowerLetters[i] = c]
    ELSE c

\* str.upper()
upper(s) == [i \in DOMAIN s |-> UpperChar(s[i])]

RECURSIVE lstrip(_)
lstrip(s) ==
    IF s # <<>> /\ Head(s) \in Whitespace THEN lstrip(Tail(s)) ELSE s

RECURSIVE rstrip(_)
rstrip(s) ==
    IF s # <<>> /\ s[Len(s)] \in Whitespace
    THEN rstrip(SubSeq(s, 1, Len(s) - 1))
    ELSE s

\* str.strip()
strip(s) == rstrip(lstrip(s))

-----------------------------------------------------------------------------
(* Python values *)

None == [type |-> "NoneType"]
PyInt(n) == [type |-> "int", val |-> n]
PyStr(s) == [type |-> "str", val |-> s]

\* dict.get(key, default)
DictGet(d, key, default) == IF key \in DOMAIN d THEN d[key] ELSE default

\* dict(a, **b): the entries of a, overridden and extended by those of b
DictMerge(a, b) ==
    [k \in DOMAIN a \cup DOMAIN b |-> IF k \in DOMAIN b THEN b[k] ELSE a[k]]

\* {v: k for k, v in d.iteritems()}
DictInverse(d) ==
    [v \in {d[k] : k \in DOMAIN d} |-> CHOOSE k \in DOMAIN d : d[k] = v]

\* reversed(seq)
reversed(seq) == [i \in DOMAIN seq |-> seq[Len(seq) + 1 - i]]

-----------------------------------------------------------------------------
(* Operator precedence table *)

_OPERATOR_PRECEDENCES ==
    << << <<"*">>, <<"/">>, <<"%">>, <<"D","I","V">>, <<"M","O","D">> >>,
       << <<"-">>, <<"+">> >>,
       << <<"<","<">>, <<">",">">> >>,
       << <<"=">>, <<"!","=">>, <<">">>, <<"<">>, <<">","=">>, <<"<","=">>,
          <<"I","N">>, <<"I","S">>, <<"I","S"," ","N","O","T">>,
          <<"N","O","T"," ","I","N">> >>,
       << <<"B","E","T","W","E","E","N">>, <<"C","A","S","E">> >>,
       << <<"A","N","D">>, <<"&","&">> >>,
       << <<"O","R">>, <<"|","|">> >> >>

\* as PrecedenceDict, but enumerating the tiers without reversed()
PrecedenceDict_unreversed(tiers) ==
    LET holds(i, item) == \E j \in DOMAIN tiers[i] : tiers[i][j] = item
        keys == UNION {{tiers[i][j] : j \in DOMAIN tiers[i]} :
                          i \in DOMAIN tiers}
    IN  [item \in keys |->
            (CHOOSE i \in DOMAIN tiers :
                /\ holds(i, item)
                /\ \A k \in DOMAIN tiers : holds(k, item) => k <= i) - 1]

\* {item: idx for idx, items in enumerate(reversed(tiers)) for item in items}
\* enumerate counts from 0; a later entry for the same key overrides
PrecedenceDict(tiers) ==
    LET rev == reversed(tiers)
        holds(i, item) == \E j \in DOMAIN rev[i] : rev[i][j] = item
        keys == UNION {{rev[i][j] : j \in DOMAIN rev[i]} : i \in DOMAIN rev}
    IN  [item \in keys |->
            (CHOOSE i \in DOMAIN rev :
                /\ holds(i, item)
                /\ \A k \in DOMAIN rev : holds(k, item) => k <= i) - 1]

\* as get_operator_precedence, but with 0 as the default of dict.get
get_operator_precedence_default0(operator) ==
    DictGet(OPERATOR_PRECEDENCES, operator, 0)

get_operator_precedence(operator) ==
    DictGet(OPERATOR_PRECEDENCES, operator, -1)

\* as compare_operator_precedence, but without the test for equal tiers
compare_operator_precedence_noeq(a, b) ==
    LET ap == get_operator_precedence(upper(a))
        bp == get_operator_precedence(upper(b))
    IN  IF ap > bp THEN 1 ELSE -1

compare_operator_precedence(a, b) ==
    LET ap == get_operator_precedence(upper(a))
        bp == get_operator_precedence(upper(b))
    IN  IF ap = bp THEN 0
        ELSE IF ap > bp THEN 1
        ELSE -1

-----------------------------------------------------------------------------
(* Operator negation tables *)

UNARY_NEG_OPERATOR_BASE == (<<"-">> :> <<"+">>)

BINARY_NEG_OPERATOR_BASE ==
    (<<"I","N">> :> <<"N","O","T"," ","I","N">>) @@
    (<<"I","S">> :> <<"I","S"," ","N","O","T">>) @@
    (<<"=">> :> <<"!","=">>) @@
    (<<">">> :> <<"<","=">>) @@
    (<<"<">> :> <<">","=">>)

\* as NegationDict, but without the union with the inverse
NegationDict_oneway(base) == base

\* dict({v: k for k, v in base.iteritems()}, **base)
NegationDict(base) == DictMerge(DictInverse(base), base)

\* the result is a str, or None when the table has no entry
get_neg_operator(op, is_unary) ==
    LET key == upper(strip(op))
        table == IF is_unary THEN UNARY_NEG_OPERATOR ELSE BINARY_NEG_OPERATOR
    IN  IF key \in DOMAIN table THEN PyStr(table[key]) ELSE None

-----------------------------------------------------------------------------
(* Literal text: the coerce functions a caller can hand to the renderer *)

PyUnicode(s) == [type |-> "unicode", val |-> s]

Digits == <<"0","1","2","3","4","5","6","7","8","9">>

RECURSIVE IntToStr(_)
IntToStr(n) ==
    IF n < 0 THEN <<"-">> \o IntToStr(-n)
    ELSE IF n < 10 THEN <<Digits[n + 1]>>
    ELSE IntToStr(n \div 10) \o <<Digits[(n % 10) + 1]>>

\* str(v), the default coerce
str(v) ==
    CASE v.type = "int" -> IntToStr(v.val)
      [] v.type = "str" -> v.val
      [] v.type = "unicode" -> v.val
      [] v.type = "NoneType" -> <<"N","o","n","e">>

\* repr(v)
repr(v) ==
    CASE v.type = "int" -> IntToStr(v.val)
      [] v.type = "str" -> <<"'">> \o v.val \o <<"'">>
      [] v.type = "unicode" -> <<"u", "'">> \o v.val \o <<"'">>
      [] v.type = "NoneType" -> <<"N","o","n","e">>

friendly_repr(v) ==
    IF v.type = "unicode" THEN <<"u", "'">> \o v.val \o <<"'">>
    ELSE IF v.type = "str" THEN <<"b", "'">> \o v.val \o <<"'">>
    ELSE repr(v)

CoerceNames == {"str", "repr", "friendly_repr"}

\* coerce(v) for the coerce function of that name
Coerce(coerce, v) ==
    CASE coerce = "str" -> str(v)
      [] coerce = "repr" -> repr(v)
      [] coerce = "friendly_repr" -> friendly_repr(v)

-----------------------------------------------------------------------------
(* Operands *)

\* the parameter lists owned by the operands that have a render method;
\* list i of the heap belongs to Fields[i]
FieldParams ==
    << <<>>,
       <<PyInt(1)>>,
       <<PyInt(2), PyStr(<<"x">>)>> >>

FieldIds == DOMAIN FieldParams

\* an object exposing get_sql_and_params; params is a reference to its list
Field(sql, id) == [type |-> "Field", sql |-> sql, params |-> id]

Fields ==
    << Field(<<"a">>, 1),
       Field(<<"b"," ","="," ","%","s">>, 2),
       Field(<<"f","(","%","s",","," ","%","s",")">>, 3) >>

FieldSet == {Fields[i] : i \in DOMAIN Fields}

\* values without a render method
Literals ==
    {None, PyInt(5), PyInt(-12), PyStr(<<"a">>), PyUnicode(<<"b">>)}

Operands == Literals \cup FieldSet

\* hasattr(v, 'get_sql_and_params')
HasRender(v) == v.type = "Field"

\* v.get_sql_and_params(): the text and the operand's own list, by reference
get_sql_and_params(v) == [sql |-> v.sql, params |-> v.params]

-----------------------------------------------------------------------------
(* Heap of list objects *)

\* [] : a new list object
NewList(h) == [id |-> Len(h) + 1, heap |-> Append(h, <<>>)]

\* target.extend(source), in place
ListExtend(h, target, source) == [h EXCEPT ![target] = @ \o h[source]]

\* lists no caller holds any more are dropped; the operands' lists stay
Collect(h) == SubSeq(h, 1, Len(FieldParams))

-----------------------------------------------------------------------------
(* Rendering combinators *)

\* returns (text, reference to a parameter list) and the heap after the call
sql_and_params(h, v, coerce) ==
    IF HasRender(v)
    THEN LET r == get_sql_and_params(v)
         IN  [sql |-> r.sql, params |-> r.params, heap |-> h]
    ELSE LET l == NewList(h)
         IN  [sql |-> Coerce(coerce, v), params |-> l.id, heap |-> l.heap]

\* as LoopBody, but with the operand's parameters put in front of params
LoopBody_prepend(h, f) ==
    LET exp == f.exps[f.i]
        r == sql_and_params(h, exp, "str")
        h2 == IF r.heap[r.params] # <<>>
              THEN [r.heap EXCEPT ![f.params] = r.heap[r.params] \o @]
              ELSE r.heap
    IN  [heap |-> h2,
         frame |-> [f EXCEPT !.pieces = Append(@, r.sql), !.i = @ + 1]]

\* as LoopBody, but params becomes the first non-empty list it meets instead
\* of a copy of it (params = params or _params)
LoopBody_alias(h, f) ==
    LET exp == f.exps[f.i]
        r == sql_and_params(h, exp, "str")
        alias == r.heap[f.params] = <<>> /\ r.heap[r.params] # <<>>
        h2 == IF r.heap[r.params] # <<>> /\ ~alias
              THEN ListExtend(r.heap, f.params, r.params)
              ELSE r.heap
    IN  [heap |-> h2,
         frame |-> [f EXCEPT !.pieces = Append(@, r.sql), !.i = @ + 1,
                             !.params = IF alias THEN r.params ELSE @]]

\* one iteration of `for exp in exps`; the call passes no coerce, so the
\* default (str) applies whatever coerce the caller gave
LoopBody(h, f) ==
    LET exp == f.exps[f.i]
        r == sql_and_params(h, exp, "str")
        h2 == IF r.heap[r.params] # <<>>
              THEN ListExtend(r.heap, f.params, r.params)
              ELSE r.heap
    IN  [heap |-> h2,
         frame |-> [f EXCEPT !.pieces = Append(@, r.sql), !.i = @ + 1]]

-----------------------------------------------------------------------------
(* Operation mixins *)

\* self.BinaryExpression(left, right, operator)
BinaryExpression(left, right, operator) ==
    [type |-> "BinaryExpression",
     left |-> left, right |-> right, operator |-> operator]

\* self.UnaryExpression(operand, operator)
UnaryExpression(operand, operator) ==
    [type |-> "UnaryExpression", operand |-> operand, operator |-> operator]

desc(self) == UnaryExpression(self, <<"D","E","S","C">>)

asc(self) == UnaryExpression(self, <<"A","S","C">>)

__add__(self, other) == BinaryExpression(self, other, <<"+">>)

__radd__(self, other) == __add__(self, other)

__sub__(self, other) == BinaryExpression(self, other, <<"-">>)

\* as __rsub__, but with the operands in the order of the reflected call
__rsub__reflected(self, other) == BinaryExpression(other, self, <<"-">>)

__rsub__(self, other) == __sub__(self, other)

__mul__(self, other) == BinaryExpression(self, other, <<"*">>)

__div__(self, other) == BinaryExpression(self, other, <<"/">>)

__mod__(self, other) == BinaryExpression(self, other, <<"%">>)

__eq__(self, other) ==
    LET operator == IF other = None THEN <<"I","S">> ELSE <<"=">>
    IN  BinaryExpression(self, other, operator)

\* as __ne__, but without the test for None
__ne__plain(self, other) == BinaryExpression(self, other, <<"!","=">>)

__ne__(self, other) ==
    LET operator == IF other = None THEN <<"I","S"," ","N","O","T">>
                    ELSE <<"!","=">>
    IN  BinaryExpression(self, other, operator)

__gt__(self, other) == BinaryExpression(self, other, <<">">>)

__ge__(self, other) == BinaryExpression(self, other, <<">","=">>)

__lt__(self, other) == BinaryExpression(self, other, <<"<">>)

__le__(self, other) == BinaryExpression(self, other, <<"<","=">>)

in_(self, other) == BinaryExpression(self, other, <<"I","N">>)

__lshift__(self, other) == in_(self, other)

not_in_(self, other) ==
    BinaryExpression(self, other, <<"N","O","T"," ","I","N">>)

like_(self, other) == BinaryExpression(self, other, <<"L","I","K","E">>)

ilike_(self, other) == BinaryExpression(self, other, <<"I","L","I","K","E">>)

regexp_(self, other) ==
    BinaryExpression(self, other, <<"R","E","G","E","X","P">>)

between_(self, other) ==
    BinaryExpression(self, other, <<"B","E","T","W","E","E","N">>)

concat_(self, other) == BinaryExpression(self, other, <<"|","|">>)

is_(self, other) == BinaryExpression(self, other, <<"I","S">>)

is_not_(self, other) ==
    BinaryExpression(self, other, <<"I","S"," ","N","O","T">>)

UnaryMethods == {"desc", "asc"}

BinaryMethods ==
    {"__add__", "__radd__", "__sub__", "__rsub__", "__mul__", "__div__",
     "__mod__", "__eq__", "__ne__", "__gt__", "__ge__", "__lt__", "__le__",
     "in_", "__lshift__", "not_in_", "like_", "ilike_", "regexp_",
     "between_", "concat_", "is_", "is_not_"}

\* attribute lookup on UnaryOperationMixin
UnaryOperationMixin(method, self) ==
    CASE method = "desc" -> desc(self)
      [] method = "asc" -> asc(self)

\* attribute lookup on BinaryOperationMixin
BinaryOperationMixin(method, self, other) ==
    CASE method = "__add__" -> __add__(self, other)
      [] method = "__radd__" -> __radd__(self, other)
      [] method = "__sub__" -> __sub__(self, other)
      [] method = "__rsub__" -> __rsub__(self, other)
      [] method = "__mul__" -> __mul__(self, other)
      [] method = "__div__" -> __div__(self, other)
      [] method = "__mod__" -> __mod__(self, other)
      [] method = "__eq__" -> __eq__(self, other)
      [] method = "__ne__" -> __ne__(self, other)
      [] method = "__gt__" -> __gt__(self, other)
      [] method = "__ge__" -> __ge__(self, other)
      [] method = "__lt__" -> __lt__(self, other)
      [] method = "__le__" -> __le__(self, other)
      [] method = "in_" -> in_(self, other)
      [] method = "__lshift__" -> __lshift__(self, other)
      [] method = "not_in_" -> not_in_(self, other)
      [] method = "like_" -> like_(self, other)
      [] method = "ilike_" -> ilike_(self, other)
      [] method = "regexp_" -> regexp_(self, other)
      [] method = "between_" -> between_(self, other)
      [] method = "concat_" -> concat_(self, other)
      [] method = "is_" -> is_(self, other)
      [] method = "is_not_" -> is_not_(self, other)

-----------------------------------------------------------------------------
(* Inputs *)

\* operator strings handed to the lookups: every key of the tables, the
\* operators of the mixins, spellings in other letter case or with
\* surrounding blanks, and strings that are no operator at all
OperatorInputs ==
    DOMAIN PrecedenceDict(_OPERATOR_PRECEDENCES)
    \cup DOMAIN NegationDict(BINARY_NEG_OPERATOR_BASE)
    \cup DOMAIN NegationDict(UNARY_NEG_OPERATOR_BASE)
    \cup { <<"L","I","K","E">>, <<"I","L","I","K","E">>,
           <<"R","E","G","E","X","P">>, <<"A","S","C">>,
           <<"o","r">>, <<"d","i","v">>, <<"A","n","d">>, <<"i","n">>,
           <<"i","s"," ","n","o","t">>, <<"l","i","k","e">>,
           <<" ","I","N"," ">>, <<"n","o","t"," ","i","n","\n">>,
           <<" ","-">>, <<"\t","<","=">>, <<" ","O","R">>,
           <<"X","O","R">>, <<"<",">">>, <<"n","o","t">>, <<>>, <<" ">> }

\* a node built earlier, used as receiver and as operand
SampleNode == __add__(Fields[1], PyInt(5))

Receivers == FieldSet \cup {SampleNode}

Arguments == Operands \cup {SampleNode}

RECURSIVE SeqsUpTo(_, _)
\* the sequences over S of length at most n
SeqsUpTo(S, n) ==
    IF n = 0 THEN {<<>>}
    ELSE LET shorter == SeqsUpTo(S, n - 1)
         IN  shorter \cup {Append(q, x) : q \in shorter, x \in S}

-----------------------------------------------------------------------------
(* State machine *)

NoFrame == [exps |-> <<>>, coerce |-> "str", i |-> 0, pieces |-> <<>>,
            params |-> 0]

NoCall == [fn |-> "import", args |-> <<>>, done |-> TRUE, ret |-> None]

Call(fn, args, ret) == [fn |-> fn, args |-> args, done |-> TRUE, ret |-> ret]

\* the caller either makes a new call (pc = "idle") or makes the call it
\* has just made once more (pc = "done"); Repeating(fns) is the second case
Repeating(fns) == pc = "done" /\ last.fn \in fns

\* the values argument k of a call of one of fns is drawn from
Inputs(fns, k, S) ==
    IF pc = "idle" THEN S
    ELSE IF Repeating(fns) THEN {last.args[k]}
    ELSE {}

\* the result of the call before, when this call repeats it
Before(fns) ==
    IF Repeating(fns) THEN [known |-> TRUE, ret |-> last.ret]
    ELSE [known |-> FALSE, ret |-> None]

\* the state after import of olo.utils: the tables are built, no call made
Init ==
    /\ OPERATOR_PRECEDENCES = PrecedenceDict(_OPERATOR_PRECEDENCES)
    /\ UNARY_NEG_OPERATOR = NegationDict(UNARY_NEG_OPERATOR_BASE)
    /\ BINARY_NEG_OPERATOR = NegationDict(BINARY_NEG_OPERATOR_BASE)
    /\ heap = FieldParams
    /\ pc = "idle"
    /\ frame = NoFrame
    /\ last = NoCall
    /\ again = [known |-> FALSE, ret |-> None]

Call_get_operator_precedence ==
    \E operator \in Inputs({"get_operator_precedence"}, 1, OperatorInputs) :
        /\ last' = Call("get_operator_precedence", <<operator>>,
                        get_operator_precedence(operator))
        /\ again' = Before({"get_operator_precedence"})
        /\ pc' = "done"
        /\ UNCHANGED <<tables, heap, frame>>

Call_compare_operator_precedence ==
    \E a \in Inputs({"compare_operator_precedence"}, 1, OperatorInputs),
       b \in Inputs({"compare_operator_precedence"}, 2, OperatorInputs) :
        /\ last' = Call("compare_operator_precedence", <<a, b>>,
                        compare_operator_precedence(a, b))
        /\ again' = Before({"compare_operator_precedence"})
        /\ pc' = "done"
        /\ UNCHANGED <<tables, heap, frame>>

Call_get_neg_operator ==
    \E op \in Inputs({"get_neg_operator"}, 1, OperatorInputs),
       is_unary \in Inputs({"get_neg_operator"}, 2, BOOLEAN) :
        /\ last' = Call("get_neg_operator", <<op, is_unary>>,
                        get_neg_operator(op, is_unary))
        /\ again' = Before({"get_neg_operator"})
        /\ pc' = "done"
        /\ UNCHANGED <<tables, heap, frame>>

\* the caller takes the text and the content of the returned list
Call_sql_and_params ==
    \E v \in Inputs({"sql_and_params"}, 1, Operands),
       coerce \in Inputs({"sql_and_params"}, 2, CoerceNames) :
        LET r == sql_and_params(heap, v, coerce)
        IN  /\ last' = Call("sql_and_params", <<v, coerce>>,
                            [sql |-> r.sql, params |-> r.heap[r.params]])
            /\ again' = Before({"sql_and_params"})
            /\ heap' = Collect(r.heap)
            /\ pc' = "done"
            /\ UNCHANGED <<tables, frame>>

\* entry of get_sql_pieces_and_params: pieces = [], params = []
Begin_get_sql_pieces_and_params ==
    \E exps \in Inputs({"get_sql_pieces_and_params"}, 1,
                       SeqsUpTo(Operands, MaxExps)),
       coerce \in Inputs({"get_sql_pieces_and_params"}, 2, CoerceNames) :
        LET l == NewList(heap)
        IN  /\ pc' = "loop"
            /\ heap' = l.heap
            /\ frame' = [exps |-> exps, coerce |-> coerce, i |-> 1,
                         pieces |-> <<>>, params |-> l.id]
            /\ last' = [fn |-> "get_sql_pieces_and_params",
                        args |-> <<exps, coerce>>, done |-> FALSE,
                        ret |-> None]
            /\ again' = Before({"get_sql_pieces_and_params"})
            /\ UNCHANGED tables

\* one iteration of the for loop
Loop_get_sql_pieces_and_params ==
    /\ pc = "loop"
    /\ frame.i <= Len(frame.exps)
    /\ LET r == LoopBody(heap, frame)
       IN  /\ heap' = r.heap
           /\ frame' = r.frame
    /\ UNCHANGED <<tables, pc, last, again>>

\* return pieces, params; the locals and the temporaries go away
Return_get_sql_pieces_and_params ==
    /\ pc = "loop"
    /\ frame.i > Len(frame.exps)
    /\ last' = [last EXCEPT !.done = TRUE,
                            !.ret = [pieces |-> frame.pieces,
                                     params |-> heap[frame.params]]]
    /\ heap' = Collect(heap)
    /\ frame' = NoFrame
    /\ pc' = "done"
    /\ UNCHANGED <<tables, again>>

\* receiver.method()
Call_UnaryOperationMixin ==
    \E method \in (IF Repeating(UnaryMethods) THEN {last.fn}
                   ELSE IF pc = "idle" THEN UnaryMethods ELSE {}),
       self \in Inputs(UnaryMethods, 1, Receivers) :
        /\ last' = Call(method, <<self>>, UnaryOperationMixin(method, self))
        /\ again' = Before(UnaryMethods)
        /\ pc' = "done"
        /\ UNCHANGED <<tables, heap, frame>>

\* receiver.method(other)
Call_BinaryOperationMixin ==
    \E method \in (IF Repeating(BinaryMethods) THEN {last.fn}
                   ELSE IF pc = "idle" THEN BinaryMethods ELSE {}),
       self \in Inputs(BinaryMethods, 1, Receivers),
       other \in Inputs(BinaryMethods, 2, Arguments) :
        /\ last' = Call(method, <<self, other>>,
                        BinaryOperationMixin(method, self, other))
        /\ again' = Before(BinaryMethods)
        /\ pc' = "done"
        /\ UNCHANGED <<tables, heap, frame>>

\* the caller is done with the result of its last call
Forget ==
    /\ pc = "done"
    /\ pc' = "idle"
    /\ last' = NoCall
    /\ again' = [known |-> FALSE, ret |-> None]
    /\ UNCHANGED <<tables, heap, frame>>

Next ==
    \/ Call_get_operator_precedence
    \/ Call_compare_operator_precedence
    \/ Call_get_neg_operator
    \/ Call_sql_and_params
    \/ Begin_get_sql_pieces_and_params
    \/ Loop_get_sql_pieces_and_params
    \/ Return_get_sql_pieces_and_params
    \/ Call_UnaryOperationMixin
    \/ Call_BinaryOperationMixin
    \/ Forget

Spec == Init /\ [][Next]_vars

-----------------------------------------------------------------------------
(* Properties *)

\* the arguments and the result of the last call, when it was a call of fn
IsCall(fn) == last.fn = fn /\ last.done

\* the tiers as the design document lists them
DocumentedTier ==
    [op \in {<<"O","R">>, <<"|","|">>} |-> 0] @@
    [op \in {<<"A","N","D">>, <<"&","&">>} |-> 1] @@
    [op \in {<<"B","E","T","W","E","E","N">>, <<"C","A","S","E">>} |-> 2] @@
    [op \in {<<"=">>, <<"!","=">>, <<">">>, <<"<">>, <<">","=">>,
             <<"<","=">>, <<"I","N">>, <<"I","S">>,
             <<"I","S"," ","N","O","T">>, <<"N","O","T"," ","I","N">>} |-> 3] @@
    [op \in {<<"<","<">>, <<">",">">>} |-> 4] @@
    [op \in {<<"+">>, <<"-">>} |-> 5] @@
    [op \in {<<"*">>, <<"/">>, <<"%">>, <<"D","I","V">>, <<"M","O","D">>} |-> 6]

\* C1: get_operator_precedence returns, for every operator the design
\* document lists, the tier the document gives it (OR, || 0; AND, && 1;
\* BETWEEN, CASE 2; the ten comparison and membership operators 3; <<, >> 4;
\* +, - 5; *, /, %, DIV, MOD 6), and the table holds that tier for it.
C1_PrecedenceTiers ==
    /\ \A op \in DOMAIN DocumentedTier :
          /\ op \in DOMAIN OPERATOR_PRECEDENCES
          /\ OPERATOR_PRECEDENCES[op] = DocumentedTier[op]
    /\ IsCall("get_operator_precedence")
       /\ last.args[1] \in DOMAIN DocumentedTier
          => last.ret = DocumentedTier[last.args[1]]

C1_Witness ==
    /\ IsCall("get_operator_precedence")
    /\ last.args[1] = <<"D","I","V">>
    /\ last.ret = 6

\* the operators with a defined negation, per table
DefinedNegations(is_unary) ==
    IF is_unary
    THEN {<<"-">>, <<"+">>}
    ELSE {<<"I","N">>, <<"N","O","T"," ","I","N">>, <<"I","S">>,
          <<"I","S"," ","N","O","T">>, <<"=">>, <<"!","=">>, <<">">>,
          <<"<","=">>, <<"<">>, <<">","=">>}

\* C2: negation is an involution: for every operator with a defined negation,
\* get_neg_operator returns an operator that has a defined negation itself,
\* and get_neg_operator of that result, with the same is_unary flag, is the
\* operator again.
C2_NegationInvolution ==
    IsCall("get_neg_operator")
    /\ last.args[1] \in DefinedNegations(last.args[2])
       => /\ last.ret # None
          /\ last.ret.val \in DefinedNegations(last.args[2])
          /\ get_neg_operator(last.ret.val, last.args[2])
                = PyStr(last.args[1])

C2_Witness ==
    /\ IsCall("get_neg_operator")
    /\ last.args = << <<"<","=">>, FALSE >>
    /\ last.ret = PyStr(<<">">>)

\* C3: __eq__ and __ne__ build a node whose operator is IS / IS NOT exactly
\* when the operand is None and = / != otherwise; no node they build pairs
\* = or != with a None right operand.
C3_NullEquality ==
    /\ IsCall("__eq__") =>
          /\ (last.ret.operator = <<"I","S">>) <=> (last.args[2] = None)
          /\ (last.ret.operator = <<"=">>) <=> (last.args[2] # None)
    /\ IsCall("__ne__") =>
          /\ (last.ret.operator = <<"I","S"," ","N","O","T">>)
                <=> (last.args[2] = None)
          /\ (last.ret.operator = <<"!","=">>) <=> (last.args[2] # None)
    /\ IsCall("__eq__") \/ IsCall("__ne__") =>
          ~ (/\ last.ret.operator \in {<<"=">>, <<"!","=">>}
             /\ last.ret.right = None)

C3_Witness ==
    /\ IsCall("__ne__")
    /\ last.args[2] = None
    /\ last.ret.operator = <<"I","S"," ","N","O","T">>
    /\ last.ret.right = None

\* the parameter list an operand brings: its own list, none for a literal
ParamsOf(v) == IF HasRender(v) THEN heap[v.params] ELSE <<>>

RECURSIVE ConcatParams(_)
\* the operands' parameter lists, one after the other in index order
ConcatParams(exps) ==
    IF exps = <<>> THEN <<>>
    ELSE ParamsOf(Head(exps)) \o ConcatParams(Tail(exps))

\* the text of an operand when no coerce is given
TextOf(v) == IF HasRender(v) THEN v.sql ELSE str(v)

\* C4: get_sql_pieces_and_params returns as many pieces as there are
\* operands, pieces[i] being the text of exps[i], and a parameter list that
\* is the concatenation of the operands' own lists in index order, literals
\* bringing none.
C4_PiecesAndParams ==
    IsCall("get_sql_pieces_and_params") =>
        LET exps == last.args[1]
        IN  /\ Len(last.ret.pieces) = Len(exps)
            /\ \A i \in DOMAIN exps : last.ret.pieces[i] = TextOf(exps[i])
            /\ last.ret.params = ConcatParams(exps)

C4_Witness ==
    /\ IsCall("get_sql_pieces_and_params")
    /\ last.args[1] = <<Fields[3], PyInt(5), Fields[2]>>
    /\ last.ret.params = <<PyInt(2), PyStr(<<"x">>), PyInt(1)>>

\* C5: with a coerce function c given, the text of every literal operand is
\* c(v) with no parameters, in sql_and_params(v, c) and in every literal
\* element of get_sql_pieces_and_params(exps, c); operands with a render
\* method are rendered by it.
C5_CoercePluggable ==
    /\ IsCall("sql_and_params") =>
          LET v == last.args[1]
          IN  IF HasRender(v)
              THEN last.ret = [sql |-> v.sql, params |-> heap[v.params]]
              ELSE last.ret = [sql |-> Coerce(last.args[2], v),
                               params |-> <<>>]
    /\ IsCall("get_sql_pieces_and_params") =>
          LET exps == last.args[1]
          IN  \A i \in DOMAIN exps :
                  last.ret.pieces[i] =
                      IF HasRender(exps[i]) THEN exps[i].sql
                      ELSE Coerce(last.args[2], exps[i])

\* C6, as stated: an operator string that is not in the precedence table has
\* precedence -1 and compares -1 with every operator of the table; an
\* operator string that is not in the selected negation table has negation
\* None.
C6_UnknownOperator_asStated ==
    /\ IsCall("get_operator_precedence")
       /\ last.args[1] \notin DOMAIN OPERATOR_PRECEDENCES
          => last.ret = -1
    /\ IsCall("compare_operator_precedence")
       /\ last.args[1] \notin DOMAIN OPERATOR_PRECEDENCES
       /\ last.args[2] \in DOMAIN OPERATOR_PRECEDENCES
          => last.ret = -1
    /\ IsCall("get_neg_operator")
       /\ last.args[1] \notin DOMAIN (IF last.args[2] THEN UNARY_NEG_OPERATOR
                                      ELSE BINARY_NEG_OPERATOR)
          => last.ret = None

\* C6, amended: an operator string that is not in the precedence table has
\* precedence -1; one whose upper-cased form is not in the table compares -1
\* with every operator of the table; one whose stripped, upper-cased form is
\* not in the selected negation table has negation None.
C6_UnknownOperator ==
    /\ IsCall("get_operator_precedence")
       /\ last.args[1] \notin DOMAIN OPERATOR_PRECEDENCES
          => last.ret = -1
    /\ IsCall("compare_operator_precedence")
       /\ upper(last.args[1]) \notin DOMAIN OPERATOR_PRECEDENCES
       /\ last.args[2] \in DOMAIN OPERATOR_PRECEDENCES
          => last.ret = -1
    /\ IsCall("get_neg_operator")
       /\ upper(strip(last.args[1]))
             \notin DOMAIN (IF last.args[2] THEN UNARY_NEG_OPERATOR
                            ELSE BINARY_NEG_OPERATOR)
          => last.ret = None

C6_Witness ==
    /\ IsCall("compare_operator_precedence")
    /\ last.args = << <<"X","O","R">>, <<"O","R">> >>
    /\ last.ret = -1

\* the operator the design document gives for each capability
DocumentedOperator ==
    [m \in {"__add__", "__radd__"} |-> <<"+">>] @@
    [m \in {"__sub__", "__rsub__"} |-> <<"-">>] @@
    ("__mul__" :> <<"*">>) @@ ("__div__" :> <<"/">>) @@
    ("__mod__" :> <<"%">>) @@
    ("__gt__" :> <<">">>) @@ ("__ge__" :> <<">","=">>) @@
    ("__lt__" :> <<"<">>) @@ ("__le__" :> <<"<","=">>) @@
    [m \in {"in_", "__lshift__"} |-> <<"I","N">>] @@
    ("not_in_" :> <<"N","O","T"," ","I","N">>) @@
    ("like_" :> <<"L","I","K","E">>) @@
    ("ilike_" :> <<"I","L","I","K","E">>) @@
    ("regexp_" :> <<"R","E","G","E","X","P">>) @@
    ("between_" :> <<"B","E","T","W","E","E","N">>) @@
    ("concat_" :> <<"|","|">>) @@
    ("is_" :> <<"I","S">>) @@
    ("is_not_" :> <<"I","S"," ","N","O","T">>) @@
    ("asc" :> <<"A","S","C">>) @@ ("desc" :> <<"D","E","S","C">>)

\* C7: every capability applied to receiver r with argument v returns the
\* node (left = r, right = v, operator) with the documented operator, asc
\* and desc the node (operand = r, operator); __radd__, __rsub__ and
\* __lshift__ build the node __add__, __sub__ and in_ build.
C7_MixinOperators ==
    /\ \A m \in BinaryMethods \cap DOMAIN DocumentedOperator :
          IsCall(m) =>
              /\ last.ret.type = "BinaryExpression"
              /\ last.ret.left = last.args[1]
              /\ last.ret.right = last.args[2]
              /\ last.ret.operator = DocumentedOperator[m]
    /\ \A m \in UnaryMethods :
          IsCall(m) =>
              /\ last.ret.type = "UnaryExpression"
              /\ last.ret.operand = last.args[1]
              /\ last.ret.operator = DocumentedOperator[m]
    /\ IsCall("__radd__") => last.ret = __add__(last.args[1], last.args[2])
    /\ IsCall("__rsub__") => last.ret = __sub__(last.args[1], last.args[2])
    /\ IsCall("__lshift__") => last.ret = in_(last.args[1], last.args[2])

C7_Witness ==
    /\ IsCall("__rsub__")
    /\ last.args = <<Fields[1], PyInt(5)>>
    /\ last.ret.left = Fields[1]
    /\ last.ret.right = PyInt(5)
    /\ last.ret.operator = <<"-">>

\* C8: compare_operator_precedence returns -1, 0 or 1 for all operator
\* strings, known or not and in any letter case; compare(a, b) is
\* -compare(b, a); compare(a, a) is 0; operators of the same tier compare 0.
C8_CompareAntisymmetric ==
    IsCall("compare_operator_precedence") =>
        LET a == last.args[1]
            b == last.args[2]
        IN  /\ last.ret \in {-1, 0, 1}
            /\ last.ret = - compare_operator_precedence(b, a)
            /\ a = b => last.ret = 0
            /\ upper(a) \in DOMAIN DocumentedTier
               /\ upper(b) \in DOMAIN DocumentedTier
               /\ DocumentedTier[upper(a)] = DocumentedTier[upper(b)]
                  => last.ret = 0

C8_Witness ==
    /\ IsCall("compare_operator_precedence")
    /\ last.args = << <<"o","r">>, <<"|","|">> >>
    /\ last.ret = 0

\* C9: rendering changes no state and is repeatable: the tables and the
\* operands' own parameter lists are what they were after import, whatever
\* calls were made, and a render call made a second time returns what it
\* returned the first time.
C9_RenderingIsPure ==
    /\ OPERATOR_PRECEDENCES = PrecedenceDict(_OPERATOR_PRECEDENCES)
    /\ UNARY_NEG_OPERATOR = NegationDict(UNARY_NEG_OPERATOR_BASE)
    /\ BINARY_NEG_OPERATOR = NegationDict(BINARY_NEG_OPERATOR_BASE)
    /\ \A id \in FieldIds : heap[id] = FieldParams[id]
    /\ (IsCall("sql_and_params") \/ IsCall("get_sql_pieces_and_params"))
       /\ again.known
          => last.ret = again.ret

C9_Witness ==
    /\ IsCall("get_sql_pieces_and_params")
    /\ again.known
    /\ last.args[1] = <<Fields[2], PyStr(<<"a">>), Fields[3]>>
    /\ last.ret.params = <<PyInt(1), PyInt(2), PyStr(<<"x">>)>>

\* C10: every operator BinaryOperationMixin puts into a node is a key of the
\* precedence table, so get_operator_precedence of a mixin-built node's
\* operator is never -1.
C10_MixinOperatorsHaveTier ==
    \A m \in BinaryMethods :
        IsCall(m) =>
            /\ last.ret.operator \in DOMAIN OPERATOR_PRECEDENCES
            /\ get_operator_precedence(last.ret.operator) # -1

=============================================================================
